---- MODULE Spec2Model ----
(***************************************************************************)
(* A model of the YouTube analytics dashboard's core:                      *)
(*   - get_comments and its caller comments_extractor_ui                   *)
(*     (src/comment_extractor.py),                                         *)
(*   - extract_video_id (src/comment_extractor.py),                        *)
(*   - extract_channel_id and its caller channel_analytics (src/app.py).   *)
(*                                                                         *)
(* Python values are modelled as follows.  An optional value (None or a    *)
(* value) is the empty tuple or a one-element tuple.  A URL is the tuple   *)
(* of its characters.  A comment id is a tuple of numbers (the API's       *)
(* opaque id strings); the empty string is the empty tuple.                *)
(***************************************************************************)
EXTENDS Integers, Sequences, FiniteSets, TLC

VARIABLES
    \* ---- comments_extractor_ui (the caller of get_comments)
    uiPc,            \* position in comments_extractor_ui
    user_max,        \* the number_input "Maximum comments to fetch"
    include_replies, \* the checkbox "Include replies"
    statistics,      \* video_details["statistics"]: [commentCount |-> optional]
    uiMessages,      \* st.error / st.success calls, in order
    shown,           \* the comments the UI ends up with (after the filter)
    \* ---- get_comments
    pc,              \* position in get_comments
    max_comments,    \* the argument max_comments (optional number)
    next_page_token, \* the local next_page_token (optional token)
    response,        \* the page being processed
    idx,             \* index of the next item of response["items"]
    comments,        \* the local list comments
    comment_count,   \* the local comment_count
    ret,             \* the value get_comments returned (optional list)
    \* ---- what the collaborators saw (history of the run)
    requests,        \* number of commentThreads().list requests executed
    served,          \* the pages the API served, in order
    processed,       \* the items whose loop body ran to its end, in order
    progress_calls,  \* the calls of progress_bar.progress, in order
    raised,          \* whether request.execute() raised HttpError
    stoppedByCap,    \* whether get_comments returned at line 117
    \* ---- extract_channel_id and channel_analytics
    chPc,            \* position of the channel flow
    ch_first,        \* the input of the first resolution
    ch_input,        \* the argument url of the latest call
    ch_api,          \* what the API answered to each kind of call
    ch_result,       \* the value extract_channel_id returned (optional)
    ch_calls,        \* the API calls made, in order
    ch_failed,       \* whether an API call raised HttpError
    ch_messages,     \* st.error calls, in order
    ch_outcome,      \* the branch channel_analytics took
    ch_rounds,       \* number of calls of extract_channel_id
    \* ---- extract_video_id
    vPc,             \* position of the video flow
    v_input,         \* the parts the input URL was put together from
    v_url,           \* the argument url
    v_result         \* the value extract_video_id returned (optional)

cvars == <<uiPc, user_max, include_replies, statistics, uiMessages, shown,
           pc, max_comments, next_page_token, response, idx, comments,
           comment_count, ret, requests, served, processed, progress_calls,
           raised, stoppedByCap>>

hvars == <<chPc, ch_first, ch_input, ch_api, ch_result, ch_calls, ch_failed,
           ch_messages, ch_outcome, ch_rounds>>

vvars == <<vPc, v_input, v_url, v_result>>

vars == <<cvars, hvars, vvars>>

(***************************************************************************)
(* Bounds of the model.                                                    *)
(***************************************************************************)
MaxPages   == 3   \* pages the API serves before it stops issuing tokens
MaxRecords == 5   \* comments plus replies the video holds over all pages
MaxCap     == 4   \* largest cap asked for and largest reported commentCount
MaxResolves == 2  \* calls of extract_channel_id in a row

(***************************************************************************)
(* Python values.                                                          *)
(***************************************************************************)
None == <<>>
Some(x) == <<x>>
Val(o) == o[1]

\* Python truthiness of an optional number: None and 0 are falsy.
TruthyNum(o) == o # None /\ Val(o) # 0

\* Python truthiness of an optional page token: None is falsy.
TruthyToken(o) == o # None

Min(a, b) == IF a <= b THEN a ELSE b

Range(s) == { s[k] : k \in 1..Len(s) }

RECURSIVE Concat(_)
Concat(ss) == IF ss = <<>> THEN <<>> ELSE Head(ss) \o Concat(Tail(ss))

\* A decimal string is the tuple of its digits; int(s) reads it base 10.
RECURSIVE ParseInt(_)
ParseInt(s) ==
    IF s = <<>> THEN 0 ELSE 10 * ParseInt(SubSeq(s, 1, Len(s) - 1)) + s[Len(s)]

\* The decimal string the API reports for the number n.
RECURSIVE DecimalString(_)
DecimalString(n) ==
    IF n < 10 THEN <<n>> ELSE Append(DecimalString(n \div 10), n % 10)

(***************************************************************************)
(* Strings and the regular expressions of the two resolvers.  A string is  *)
(* the tuple of its characters; positions count from 1.                    *)
(***************************************************************************)
VideoIdLen   == 11   \* {11} in the patterns of extract_video_id
ChannelIdLen == 24   \* len(url) == 24 in extract_channel_id

\* The character class [a-zA-Z0-9_-]
ClassChars ==
    {"a", "b", "c", "d", "e", "f", "g", "h", "i", "j", "k",
    "l", "m", "n", "o", "p", "q", "r", "s", "t", "u", "v", "w", "x", "y",
    "z", "A", "B", "C", "D", "E", "F", "G", "H", "I", "J", "K", "L", "M",
    "N", "O", "P", "Q", "R", "S", "T", "U", "V", "W", "X", "Y", "Z", "0",
    "1", "2", "3", "4", "5", "6", "7", "8", "9", "_", "-"}

L_https == <<"h", "t", "t", "p", "s", ":", "/", "/">>
L_http == <<"h", "t", "t", "p", ":", "/", "/">>
L_www == <<"w", "w", "w", ".">>
L_host == <<"y", "o", "u", "t", "u", "b", "e", ".", "c", "o", "m", "/">>
L_channel == <<"c", "h", "a", "n", "n", "e", "l", "/">>
L_c == <<"c", "/">>
L_at == <<"@">>
L_watch == <<"y", "o", "u", "t", "u", "b", "e", ".", "c", "o", "m", "/", "w",
    "a", "t", "c", "h", "?", "v", "=">>
L_short == <<"y", "o", "u", "t", "u", ".", "b", "e", "/">>
L_embed == <<"y", "o", "u", "t", "u", "b", "e", ".", "c", "o", "m", "/", "e",
    "m", "b", "e", "d", "/">>
L_v == <<"y", "o", "u", "t", "u", "b", "e", ".", "c", "o", "m", "/", "v",
    "/">>
L_UC == <<"U", "C">>

\* Whether lit occurs in s at position i.
HasAt(s, i, lit) ==
    /\ i >= 1
    /\ i + Len(lit) - 1 <= Len(s)
    /\ SubSeq(s, i, i + Len(lit) - 1) = lit

\* str.startswith
StartsWith(s, lit) == HasAt(s, 1, lit)

\* str.find(c) > -1
Contains(s, c) == \E k \in 1..Len(s) : s[k] = c

\* The first value of a tuple of optional values, or None.
RECURSIVE FirstSome(_)
FirstSome(os) ==
    IF os = <<>> THEN None
    ELSE IF Head(os) # None THEN Head(os) ELSE FirstSome(Tail(os))

\* (?:https?:\/\/)? at position i: the positions the match may go on from,
\* in the order the matcher tries them (the group taken, then skipped).
SchemeEnds(s, i) ==
    (IF HasAt(s, i, L_https) THEN <<i + Len(L_https)>> ELSE <<>>) \o
    (IF HasAt(s, i, L_http) THEN <<i + Len(L_http)>> ELSE <<>>) \o
    <<i>>

\* (?:www\.)? at position j, likewise.
WwwEnds(s, j) ==
    (IF HasAt(s, j, L_www) THEN <<j + Len(L_www)>> ELSE <<>>) \o <<j>>

\* (?:https?:\/\/)?(?:www\.)? at position i, likewise.
PrefixEnds(s, i) ==
    Concat([k \in 1..Len(SchemeEnds(s, i)) |-> WwwEnds(s, SchemeEnds(s, i)[k])])

\* ([a-zA-Z0-9_-]{n}) at position j: the group, or None.
FixedGroup(s, j, n) ==
    IF j + n - 1 <= Len(s) /\ \A k \in j..(j + n - 1) : s[k] \in ClassChars
    THEN Some(SubSeq(s, j, j + n - 1))
    ELSE None

\* ([a-zA-Z0-9_-]+) at position j, nothing following it in the pattern: the
\* longest run of class characters, or None when there is none.
GreedyGroup(s, j) ==
    LET n == CHOOSE m \in 0..(Len(s) + 1 - j) :
                 /\ \A k \in j..(j + m - 1) : s[k] \in ClassChars
                 /\ j + m > Len(s) \/ s[j + m] \notin ClassChars
    IN IF j <= Len(s) + 1 /\ n >= 1 THEN Some(SubSeq(s, j, j + n - 1)) ELSE None

(***************************************************************************)
(* extract_video_id (src/comment_extractor.py, lines 14-29)                *)
(***************************************************************************)
\* The patterns with the short-link pattern left out.
VideoPatterns_NoShort == <<L_watch, L_embed, L_v>>

\* lines 17-22: the literal part of each pattern, in order
VideoPatterns == <<L_watch, L_short, L_embed, L_v>>

\* A pattern matched at position i: group(1), or None.
VideoMatchAt(s, i, lit) ==
    LET ends == PrefixEnds(s, i)
    IN FirstSome([k \in 1..Len(ends) |->
                     IF HasAt(s, ends[k], lit)
                     THEN FixedGroup(s, ends[k] + Len(lit), VideoIdLen)
                     ELSE None])

\* line 25: re.search(pattern, url), the leftmost match: group(1), or None.
VideoSearch(s, lit) ==
    FirstSome([i \in 1..(Len(s) + 1) |-> VideoMatchAt(s, i, lit)])

\* lines 24-29
ExtractVideoId(url) ==
    FirstSome([k \in 1..Len(VideoPatterns) |-> VideoSearch(url, VideoPatterns[k])])

(***************************************************************************)
(* extract_channel_id (src/app.py, lines 88-152)                           *)
(***************************************************************************)
\* The length test with the wrong length.
IsChannelId_WrongLen(url) == StartsWith(url, L_UC) /\ Len(url) = ChannelIdLen - 2

\* line 91
IsChannelId(url) == StartsWith(url, L_UC) /\ Len(url) = ChannelIdLen

\* lines 98-99: re.match(channel_pattern, url): group(1), or None.
\* The alternation (?:channel\/|c\/|@) is tried in that order.
ChannelMatch(url) ==
    LET ends == PrefixEnds(url, 1)
        markers == <<L_channel, L_c, L_at>>
        after(e) == e + Len(L_host)
    IN FirstSome(Concat(
           [k \in 1..Len(ends) |->
               [m \in 1..Len(markers) |->
                   IF HasAt(url, ends[k], L_host)
                      /\ HasAt(url, after(ends[k]), markers[m])
                   THEN GreedyGroup(url, after(ends[k]) + Len(markers[m]))
                   ELSE None]]))

\* The watch pattern looked for anywhere in the input (re.search).
WatchMatch_Search(url) ==
    FirstSome(Concat(
        [i \in 1..(Len(url) + 1) |->
            [k \in 1..Len(PrefixEnds(url, i)) |->
                IF HasAt(url, PrefixEnds(url, i)[k], L_watch)
                THEN GreedyGroup(url, PrefixEnds(url, i)[k] + Len(L_watch))
                ELSE None]]))

\* lines 135-136: re.match(video_pattern, url): group(1), or None.
WatchMatch(url) ==
    LET ends == PrefixEnds(url, 1)
    IN FirstSome([k \in 1..Len(ends) |->
                     IF HasAt(url, ends[k], L_watch)
                     THEN GreedyGroup(url, ends[k] + Len(L_watch))
                     ELSE None])

\* The outcome of one API call: HttpError, or the channel ids of the items.
ApiError == [error |-> TRUE, items |-> <<>>]
ApiItems(ids) == [error |-> FALSE, items |-> ids]

\* lines 95, 152: channel_id = None ... return channel_id
NotFound == None

\* What extract_channel_id hands back, with the API calls it made and
\* whether one of them raised HttpError.
Outcome(result, calls, failed) ==
    [result |-> result, calls |-> calls, failed |-> failed]

\* lines 134-152: the watch-URL lookup and the final return
VideoLookup(url, api, calls) ==
    LET video_match == WatchMatch(url)
    IN IF video_match # None
       THEN IF api["videos"].error
            THEN Outcome(None, Append(calls, "videos"), TRUE)
            ELSE IF api["videos"].items # <<>>
                 THEN Outcome(Some(api["videos"].items[1]),
                              Append(calls, "videos"), FALSE)
                 ELSE Outcome(NotFound, Append(calls, "videos"), FALSE)
       ELSE Outcome(NotFound, calls, FALSE)

\* lines 110, 121: the lookup a captured segment is resolved with
LookupKind(url) == IF Contains(url, "@") THEN "search" ELSE "channels"

\* lines 88-152; api gives the outcome of each kind of API call
ExtractChannelId(url, api) ==
    IF IsChannelId(url)
    THEN Outcome(Some(url), <<>>, FALSE)
    ELSE LET channel_match == ChannelMatch(url)
         IN IF channel_match # None
            THEN IF StartsWith(Val(channel_match), L_UC)
                 THEN Outcome(channel_match, <<>>, FALSE)
                 ELSE LET kind == LookupKind(url)
                      IN IF api[kind].error
                         THEN Outcome(None, <<kind>>, TRUE)
                         ELSE IF api[kind].items # <<>>
                              THEN Outcome(Some(api[kind].items[1]),
                                           <<kind>>, FALSE)
                              ELSE VideoLookup(url, api, <<kind>>)
            ELSE VideoLookup(url, api, <<>>)

(***************************************************************************)
(* The external API: commentThreads().list.  A page is                     *)
(*   [items |-> <<item, ...>>, nextPageToken |-> optional token]           *)
(* an item (comment thread) is                                             *)
(*   [id |-> id, replies |-> optional <<reply, ...>>]                      *)
(* ("replies" is a key the API leaves out for a thread without replies)    *)
(* and a reply is [id |-> id, parentId |-> id].  The other snippet fields  *)
(* (author, text, likes, timestamps) are copied to the record unchanged    *)
(* and are left out.                                                       *)
(***************************************************************************)
EmptyId == <<>>
ForeignId == <<0>>           \* an id that names no thread of any page
ThreadId(p, i) == <<p, i>>
ReplyId(p, i, j) == <<p, i, j>>

\* Records one item contributes: its top-level comment and its replies.
Weight(item) ==
    1 + (IF item.replies = None THEN 0 ELSE Len(Val(item.replies)))

\* The items the API may deliver as thread i of page p within a budget of b
\* records: no "replies" key, or 1..b-1 replies whose parentId field is the
\* thread's id or, for all of them, another id.
ThreadsAt(p, i, b) ==
    IF b < 1 THEN {}
    ELSE { [id |-> ThreadId(p, i), replies |-> None] } \cup
         { [id |-> ThreadId(p, i),
            replies |-> Some([j \in 1..n |->
                               [id |-> ReplyId(p, i, j), parentId |-> par]])] :
             n \in 1..(b - 1), par \in {ThreadId(p, i), ForeignId} }

\* The item lists page p may hold from index i on within a budget of b.
RECURSIVE ItemsFrom(_, _, _)
ItemsFrom(p, i, b) ==
    {<<>>} \cup
    UNION { { <<t>> \o rest : rest \in ItemsFrom(p, i + 1, b - Weight(t)) } :
            t \in ThreadsAt(p, i, b) }

\* The page a token asks for: no token asks for the first page.
PageOfToken(tok) == IF tok = None THEN 1 ELSE Val(tok)

(***************************************************************************)
(* get_comments (src/comment_extractor.py, lines 48-131)                   *)
(***************************************************************************)
\* lines 75-86: the record of an item's top-level comment
TopLevelRecord(item) ==
    [commentId |-> item.id, parentId |-> EmptyId, isReply |-> FALSE]

\* A reply recorded without its parent.
ReplyRecord_NoParent(reply) ==
    [commentId |-> reply.id, parentId |-> EmptyId, isReply |-> TRUE]

\* lines 95-106: the record of one reply
ReplyRecord(reply) ==
    [commentId |-> reply.id, parentId |-> reply.parentId, isReply |-> TRUE]

\* lines 91-92: the replies the loop visits
RepliesIn(item) == IF item.replies # None THEN Val(item.replies) ELSE <<>>

\* One pass that appends the top-level record and leaves the replies out.
ItemRecords_TopOnly(item) == <<TopLevelRecord(item)>>

\* lines 73-108: what one pass of the item loop appends
ItemRecords(item) ==
    <<TopLevelRecord(item)>> \o
    [j \in 1..Len(RepliesIn(item)) |-> ReplyRecord(RepliesIn(item)[j])]

\* Progress reported whenever a cap was passed, also the cap 0.
ReportsProgress_NotNone(m) == m # None

\* line 111: whether progress is reported
ReportsProgress(m) == TruthyNum(m)

\* line 112: min(comment_count / max_comments, 1.0), as a fraction
ProgressValue(count, m) == <<Min(count, Val(m)), Val(m)>>

\* The cap compared with > instead of >=.
CapReached_Strict(m, count) == TruthyNum(m) /\ count > Val(m)

\* line 116: whether the cap ends the run
CapReached(m, count) == TruthyNum(m) /\ count >= Val(m)

\* The loop left after the first page, whatever the token.
HasMorePages_Never(tok) == FALSE

\* lines 120-121: whether another page is requested
HasMorePages(tok) == TruthyToken(tok)

\* lines 50-57: the locals at entry.  A progress bar that was not passed is
\* created here (st.progress(0, ...)); creating it is no progress call.
EnterGetComments(m) ==
    /\ pc' = "request"
    /\ max_comments' = m
    /\ next_page_token' = None
    /\ comments' = <<>>
    /\ comment_count' = 0
    /\ response' = None
    /\ idx' = 0
    /\ ret' = None
    /\ requests' = 0
    /\ served' = <<>>
    /\ processed' = <<>>
    /\ progress_calls' = <<>>
    /\ raised' = FALSE
    /\ stoppedByCap' = FALSE

\* lines 62-68 and 129-131: request.execute() raises HttpError
RequestFails ==
    /\ pc = "request"
    /\ requests' = requests + 1
    /\ raised' = TRUE
    /\ uiMessages' = Append(uiMessages, "error: fetching comments")
    /\ ret' = Some(comments)
    /\ pc' = "returned"
    /\ UNCHANGED <<uiPc, user_max, include_replies, statistics, shown,
                   max_comments, next_page_token, response, idx, comments,
                   comment_count, served, processed, progress_calls,
                   stoppedByCap>>
    /\ UNCHANGED <<hvars, vvars>>

\* lines 62-68: request.execute() returns the page the token asks for
RequestPage ==
    /\ pc = "request"
    /\ LET p == PageOfToken(next_page_token) IN
       \E items \in ItemsFrom(p, 1, MaxRecords - comment_count),
          more \in BOOLEAN :
          /\ more => p < MaxPages
          /\ response' = Some([items |-> items,
                               nextPageToken |->
                                   IF more THEN Some(p + 1) ELSE None])
    /\ requests' = requests + 1
    /\ served' = Append(served, Val(response'))
    /\ idx' = 1
    /\ pc' = "items"
    /\ UNCHANGED <<uiPc, user_max, include_replies, statistics, uiMessages,
                   shown, max_comments, next_page_token, comments,
                   comment_count, ret, processed, progress_calls, raised,
                   stoppedByCap>>
    /\ UNCHANGED <<hvars, vvars>>

\* lines 71-117: one pass of the loop over response["items"]
ProcessItem ==
    /\ pc = "items"
    /\ idx <= Len(Val(response).items)
    /\ LET item  == Val(response).items[idx]
           recs  == ItemRecords(item)
           count == comment_count + Len(recs)
       IN /\ comments' = comments \o recs
          /\ comment_count' = count
          /\ processed' = Append(processed, item)
          /\ progress_calls' =
                 IF ReportsProgress(max_comments)
                 THEN Append(progress_calls,
                             [value |-> ProgressValue(count, max_comments),
                              count |-> count])
                 ELSE progress_calls
          /\ IF ReportsProgress(max_comments) /\ CapReached(max_comments, count)
             THEN /\ ret' = Some(comments')
                  /\ pc' = "returned"
                  /\ stoppedByCap' = TRUE
                  /\ idx' = idx
             ELSE /\ idx' = idx + 1
                  /\ UNCHANGED <<ret, pc, stoppedByCap>>
    /\ UNCHANGED <<uiPc, user_max, include_replies, statistics, uiMessages,
                   shown, max_comments, next_page_token, response, requests,
                   served, raised>>
    /\ UNCHANGED <<hvars, vvars>>

\* lines 119-127: the end of a page; before the next request the loop
\* sleeps 0.1 s (line 125), which changes no state.
EndPage ==
    /\ pc = "items"
    /\ idx > Len(Val(response).items)
    /\ next_page_token' = Val(response).nextPageToken
    /\ IF HasMorePages(next_page_token')
       THEN /\ pc' = "request"
            /\ UNCHANGED ret
       ELSE /\ pc' = "returned"
            /\ ret' = Some(comments)
    /\ UNCHANGED <<uiPc, user_max, include_replies, statistics, uiMessages,
                   shown, max_comments, response, idx, comments,
                   comment_count, requests, served, processed,
                   progress_calls, raised, stoppedByCap>>
    /\ UNCHANGED <<hvars, vvars>>

\* A caller other than the UI: get_comments(youtube, video_id[, max_comments])
DirectCall ==
    /\ uiPc = "idle"
    /\ pc = "idle"
    /\ \E m \in {None} \cup { Some(k) : k \in 0..MaxCap } : EnterGetComments(m)
    /\ uiPc' = "direct"
    /\ UNCHANGED <<user_max, include_replies, statistics, uiMessages, shown>>
    /\ UNCHANGED <<hvars, vvars>>

(***************************************************************************)
(* comments_extractor_ui (src/comment_extractor.py, lines 178-292)         *)
(***************************************************************************)
\* The cap without the clamp to the reported total.
EffectiveCap_NoClamp(um, reported) ==
    LET comment_count_ == ParseInt(reported)
    IN IF um = 0 THEN comment_count_ ELSE um

\* lines 248-250: the cap handed to get_comments
EffectiveCap(um, reported) ==
    LET comment_count_ == ParseInt(reported)
    IN IF um = 0 \/ um > comment_count_ THEN comment_count_ ELSE um

\* lines 260-261: the filter of replies
FilterReplies(cs, inc) ==
    IF ~inc THEN SelectSeq(cs, LAMBDA c : ~c.isReply) ELSE cs

\* lines 208-257: the Extract button, up to the call of get_comments.
\* get_video_details answers None (no such video, or HttpError) or the
\* video's statistics, with or without a commentCount.
UiExtract ==
    /\ uiPc = "idle"
    /\ pc = "idle"
    /\ \E um \in 0..MaxCap, inc \in BOOLEAN,
          details \in {None} \cup
                      { Some([commentCount |-> cc]) :
                          cc \in {None} \cup
                                 { Some(DecimalString(k)) : k \in 0..MaxCap } } :
          /\ user_max' = um
          /\ include_replies' = inc
          /\ IF details = None
             THEN /\ statistics' = None
                  /\ uiMessages' = Append(uiMessages, "error: no video details")
                  /\ uiPc' = "stopped"
                  /\ UNCHANGED <<pc, max_comments, next_page_token, response,
                                 idx, comments, comment_count, ret, requests,
                                 served, processed, progress_calls, raised,
                                 stoppedByCap>>
             ELSE /\ statistics' = details
                  /\ IF Val(details).commentCount = None
                     THEN /\ uiMessages' =
                                 Append(uiMessages, "error: comments disabled")
                          /\ uiPc' = "stopped"
                          /\ UNCHANGED <<pc, max_comments, next_page_token,
                                         response, idx, comments,
                                         comment_count, ret, requests, served,
                                         processed, progress_calls, raised,
                                         stoppedByCap>>
                     ELSE /\ EnterGetComments(
                                 Some(EffectiveCap(um,
                                          Val(Val(details).commentCount))))
                          /\ uiPc' = "fetching"
                          /\ UNCHANGED uiMessages
    /\ UNCHANGED shown
    /\ UNCHANGED <<hvars, vvars>>

\* lines 259-264: after get_comments returned
UiFinish ==
    /\ uiPc = "fetching"
    /\ pc = "returned"
    /\ shown' = FilterReplies(Val(ret), include_replies)
    /\ uiMessages' = Append(uiMessages, "success")
    /\ uiPc' = "done"
    /\ UNCHANGED <<user_max, include_replies, statistics, pc, max_comments,
                   next_page_token, response, idx, comments, comment_count,
                   ret, requests, served, processed, progress_calls, raised,
                   stoppedByCap>>
    /\ UNCHANGED <<hvars, vvars>>

(***************************************************************************)
(* The inputs of the resolvers.                                            *)
(***************************************************************************)
T_id1 == <<"U", "C", "_", "x", "5", "X", "G", "1", "O", "V", "2", "P", "6",
    "u", "Z", "Z", "5", "F", "S", "M", "9", "T", "t", "w">>
T_id2 == <<"U", "C", "/", "w", "a", "t", "c", "h", "?", "v", "=", "a", "b",
    "c", "d", "e", "f", "g", "h", "i", "j", "k", "l", "m">>
T_id3 == <<"U", "C", "B", "R", "8", "-", "6", "0", "-", "B", "2", "8", "h",
    "p", "2", "B", "m", "D", "P", "d", "n", "t", "c", "Q">>
T_short_id == <<"U", "C", "_", "x", "5", "X", "G", "1", "O", "V", "2", "P",
    "6", "u", "Z", "Z", "5", "F", "S", "M", "9", "T", "t">>
T_long_id == <<"U", "C", "_", "x", "5", "X", "G", "1", "O", "V", "2", "P",
    "6", "u", "Z", "Z", "5", "F", "S", "M", "9", "T", "t", "w", "x">>
T_lower_id == <<"u", "c", "_", "x", "5", "X", "G", "1", "O", "V", "2", "P",
    "6", "u", "Z", "Z", "5", "F", "S", "M", "9", "T", "t", "w">>
T_uc_name == <<"U", "C", "B", "e", "r", "k", "e", "l", "e", "y">>
T_name == <<"G", "o", "o", "g", "l", "e", "D", "e", "v", "e", "l", "o", "p",
    "e", "r", "s">>
T_user == <<"u", "s", "e", "r", "/">>
T_other_host == <<"e", "x", "a", "m", "p", "l", "e", ".", "c", "o", "m", "/",
    "c", "/">>
T_videos == <<"/", "v", "i", "d", "e", "o", "s">>
T_at_query == <<"?", "r", "e", "f", "=", "@", "m", "e">>
T_video == <<"d", "Q", "w", "4", "w", "9", "W", "g", "X", "c", "Q">>
T_video10 == <<"d", "Q", "w", "4", "w", "9", "W", "g", "X", "c">>
T_video12 == <<"d", "Q", "w", "4", "w", "9", "W", "g", "X", "c", "Q", "8">>
T_video_bad == <<"d", "Q", "w", "4", "!", "9", "W", "g", "X", "c", "Q">>
T_mobile == <<"h", "t", "t", "p", "s", ":", "/", "/", "m", ".">>
T_text == <<"s", "e", "e", " ">>
T_shorts == <<"y", "o", "u", "t", "u", "b", "e", ".", "c", "o", "m", "/",
    "s", "h", "o", "r", "t", "s", "/">>
T_vimeo == <<"v", "i", "m", "e", "o", ".", "c", "o", "m", "/">>
T_time == <<"&", "t", "=", "4", "2", "s">>
T_then_short == <<"?", "u", "=", "y", "o", "u", "t", "u", ".", "b", "e", "/",
    "A", "A", "A", "A", "A", "A", "A", "A", "A", "A", "A">>
T_then_watch == <<"&", "u", "=", "y", "o", "u", "t", "u", "b", "e", ".", "c",
    "o", "m", "/", "w", "a", "t", "c", "h", "?", "v", "=", "B", "B", "B",
    "B", "B", "B", "B", "B", "B", "B", "B">>

UrlPrefixes == {<<>>, L_https, L_http, L_https \o L_www, L_www}

\* Channel inputs: bare ids and near misses, and URLs put together from a
\* prefix, a path, a segment and a suffix.
ChannelInputs ==
    {T_id1, T_id2, T_short_id, T_long_id, T_lower_id, T_uc_name, T_name} \cup
    { pre \o path \o seg \o suf :
        pre \in UrlPrefixes,
        path \in {L_host \o L_channel, L_host \o L_c, L_host \o L_at,
                  L_host \o T_user, T_other_host},
        seg \in {T_id1, T_uc_name, T_name, <<>>},
        suf \in {<<>>, T_videos, T_at_query, T_then_watch} } \cup
    { pre \o L_watch \o T_video \o suf :
        pre \in UrlPrefixes, suf \in {<<>>, T_time} }

\* What the API may answer to one call: HttpError, no item, or one item
\* naming a channel.
ApiOutcomes == {ApiError, ApiItems(<<>>), ApiItems(<<T_id3>>)}

Apis == [{"search", "channels", "videos"} -> ApiOutcomes]

\* Video inputs, as the parts they are put together from.
VideoInputs ==
    [pre : {<<>>, L_https, L_http \o L_www, L_www, T_mobile, T_text},
     lit : {L_watch, L_short, L_embed, L_v, T_shorts, T_vimeo},
     token : {T_video, T_video10, T_video12, T_video_bad, <<>>},
     suf : {<<>>, T_time, T_then_short, T_then_watch}]

UrlOf(in) == in.pre \o in.lit \o in.token \o in.suf

(***************************************************************************)
(* The channel flow: extract_channel_id called directly, called again on   *)
(* what it returned, and called by channel_analytics (src/app.py).         *)
(***************************************************************************)
\* Python truthiness of an optional string: None and "" are falsy.
TruthyStr(o) == o # None /\ Val(o) # <<>>

\* lines 131, 149: st.error in the except branches
ErrorMessages(out) ==
    IF out.failed THEN <<"error: An error occurred">> ELSE <<>>

\* extract_channel_id(youtube, url), called by any caller
ResolveChannel ==
    /\ chPc = "idle"
    /\ \E u \in ChannelInputs, api \in Apis :
          LET out == ExtractChannelId(u, api)
          IN /\ ch_first' = u
             /\ ch_input' = u
             /\ ch_api' = api
             /\ ch_result' = out.result
             /\ ch_calls' = out.calls
             /\ ch_failed' = out.failed
             /\ ch_messages' = ErrorMessages(out)
    /\ ch_outcome' = "none"
    /\ ch_rounds' = 1
    /\ chPc' = "resolved"
    /\ UNCHANGED <<cvars, vvars>>

\* extract_channel_id called on the value it returned
ResolveAgain ==
    /\ chPc = "resolved"
    /\ ch_result # None
    /\ ch_rounds < MaxResolves
    /\ \E api \in Apis :
          LET out == ExtractChannelId(Val(ch_result), api)
          IN /\ ch_input' = Val(ch_result)
             /\ ch_api' = api
             /\ ch_result' = out.result
             /\ ch_calls' = ch_calls \o out.calls
             /\ ch_failed' = (ch_failed \/ out.failed)
             /\ ch_messages' = ch_messages \o ErrorMessages(out)
    /\ ch_rounds' = ch_rounds + 1
    /\ UNCHANGED <<chPc, ch_first, ch_outcome>>
    /\ UNCHANGED <<cvars, vvars>>

\* validators.url, a library: it accepts no string without a scheme.
ValidatorVerdicts(u) ==
    IF StartsWith(u, L_https) \/ StartsWith(u, L_http) THEN BOOLEAN ELSE {FALSE}

\* lines 197-213 of channel_analytics
ChannelAnalytics ==
    /\ chPc = "idle"
    /\ \E u \in ChannelInputs, api \in Apis :
       \E valid \in ValidatorVerdicts(u) :
          /\ ch_first' = u
          /\ ch_input' = u
          /\ IF ~valid /\ ~(StartsWith(u, L_UC) /\ Len(u) = ChannelIdLen)
             THEN /\ ch_messages' = <<"error: Please enter a valid URL">>
                  /\ ch_outcome' = "invalid"
                  /\ chPc' = "stopped"
                  /\ ch_rounds' = 0
                  /\ UNCHANGED <<ch_api, ch_result, ch_calls, ch_failed>>
             ELSE LET out == ExtractChannelId(u, api)
                  IN /\ ch_api' = api
                     /\ ch_result' = out.result
                     /\ ch_calls' = out.calls
                     /\ ch_failed' = out.failed
                     /\ ch_rounds' = 1
                     /\ IF ~TruthyStr(out.result)
                        THEN /\ ch_messages' =
                                   ErrorMessages(out) \o
                                   <<"error: Could not find a valid channel ID">>
                             /\ ch_outcome' = "no channel id"
                             /\ chPc' = "stopped"
                        ELSE /\ ch_messages' = ErrorMessages(out)
                             /\ ch_outcome' = "channel stats"
                             /\ chPc' = "analytics"
    /\ UNCHANGED <<cvars, vvars>>

(***************************************************************************)
(* The video flow: extract_video_id(url).                                  *)
(***************************************************************************)
ResolveVideo ==
    /\ vPc = "idle"
    /\ \E in \in VideoInputs :
          /\ v_input' = in
          /\ v_url' = UrlOf(in)
          /\ v_result' = ExtractVideoId(UrlOf(in))
    /\ vPc' = "resolved"
    /\ UNCHANGED <<cvars, hvars>>

(***************************************************************************)
(* Specifications.                                                         *)
(***************************************************************************)
InitComments ==
    /\ uiPc = "idle"
    /\ user_max = 0
    /\ include_replies = TRUE
    /\ statistics = None
    /\ uiMessages = <<>>
    /\ shown = <<>>
    /\ pc = "idle"
    /\ max_comments = None
    /\ next_page_token = None
    /\ response = None
    /\ idx = 0
    /\ comments = <<>>
    /\ comment_count = 0
    /\ ret = None
    /\ requests = 0
    /\ served = <<>>
    /\ processed = <<>>
    /\ progress_calls = <<>>
    /\ raised = FALSE
    /\ stoppedByCap = FALSE

InitChannel ==
    /\ chPc = "idle"
    /\ ch_first = <<>>
    /\ ch_input = <<>>
    /\ ch_api = [k \in {"search", "channels", "videos"} |-> ApiItems(<<>>)]
    /\ ch_result = None
    /\ ch_calls = <<>>
    /\ ch_failed = FALSE
    /\ ch_messages = <<>>
    /\ ch_outcome = "none"
    /\ ch_rounds = 0

InitVideo ==
    /\ vPc = "idle"
    /\ v_input = [pre |-> <<>>, lit |-> <<>>, token |-> <<>>, suf |-> <<>>]
    /\ v_url = <<>>
    /\ v_result = None

Init == InitComments /\ InitChannel /\ InitVideo

GetCommentsStep == RequestFails \/ RequestPage \/ ProcessItem \/ EndPage

\* get_comments under any caller that passes a cap or none
Next == DirectCall \/ RequestFails \/ RequestPage \/ ProcessItem \/ EndPage

Spec == Init /\ [][Next]_vars

\* get_comments under comments_extractor_ui
NextUI ==
    UiExtract \/ UiFinish \/ RequestFails \/ RequestPage \/ ProcessItem \/ EndPage

SpecUI == Init /\ [][NextUI]_vars

\* extract_channel_id and channel_analytics
NextChannel == ResolveChannel \/ ResolveAgain \/ ChannelAnalytics

SpecChannel == Init /\ [][NextChannel]_vars

\* extract_video_id
NextVideo == ResolveVideo

SpecVideo == Init /\ [][NextVideo]_vars

(***************************************************************************)
(* Claims about get_comments and comments_extractor_ui.                    *)
(***************************************************************************)
Uncapped == ~TruthyNum(max_comments)

\* Number of records the items of a list contribute.
RECURSIVE RecordsIn(_)
RecordsIn(items) ==
    IF items = <<>> THEN 0 ELSE Weight(Head(items)) + RecordsIn(Tail(items))

\* Number of records the first k served pages hold.
RECURSIVE RecordsOfPages(_)
RecordsOfPages(k) ==
    IF k = 0 THEN 0
    ELSE RecordsOfPages(k - 1) + RecordsIn(served[k].items)

\* Index in comments just before the records of the k-th processed item.
Offset(k) == RecordsIn(SubSeq(processed, 1, k - 1))

\* C1: a run without a cap in which no request fails requests a page only
\* after a page that carried a nextPageToken, keeps running until it has
\* returned, and returns after exactly N requests, N being the first page
\* without a nextPageToken, with as many records as the N pages hold
\* top-level comments and replies.
C1_PaginationTerminates ==
    (pc # "idle" /\ Uncapped /\ ~raised) =>
        /\ \A k \in 1..(Len(served) - 1) : served[k].nextPageToken # None
        /\ requests = Len(served)
        /\ pc \in {"request", "items"} => ENABLED GetCommentsStep
        /\ pc = "returned" =>
              /\ Len(served) >= 1
              /\ served[Len(served)].nextPageToken = None
              /\ Len(Val(ret)) = RecordsOfPages(Len(served))

C1_Witness ==
    /\ pc = "returned" /\ max_comments = None /\ ~raised
    /\ requests = 3
    /\ Len(Val(ret)) = 4
    /\ \E k \in 1..Len(Val(ret)) : Val(ret)[k].isReply

\* A positive cap M and a first page of at least M threads, none with replies.
C2_Precondition ==
    /\ TruthyNum(max_comments)
    /\ Len(served) >= 1
    /\ Len(served[1].items) >= Val(max_comments)
    /\ \A i \in 1..Len(served[1].items) : served[1].items[i].replies = None

\* C2: with a positive cap M and a first page of at least M threads, none
\* with replies, one request is issued, no thread past the M-th is processed
\* and exactly M records are returned.
C2_EarlyStop ==
    C2_Precondition =>
        /\ requests = 1
        /\ Len(processed) <= Val(max_comments)
        /\ pc # "request"
        /\ pc = "returned" =>
              /\ Len(Val(ret)) = Val(max_comments)
              /\ Len(processed) = Val(max_comments)

C2_Witness ==
    /\ C2_Precondition
    /\ pc = "returned"
    /\ Val(max_comments) = 2
    /\ Len(served[1].items) = 4
    /\ Len(Val(ret)) = 2

\* The records of an item as the claims describe them, the parent of a reply
\* being given by parentOf.
ThreadShape(k, parentOf(_, _)) ==
    LET item == processed[k]
        reps == IF item.replies = None THEN <<>> ELSE Val(item.replies)
    IN /\ Offset(k) + 1 + Len(reps) <= Len(comments)
       /\ comments[Offset(k) + 1].commentId = item.id
       /\ comments[Offset(k) + 1].isReply = FALSE
       /\ comments[Offset(k) + 1].parentId = EmptyId
       /\ \A j \in 1..Len(reps) :
             /\ comments[Offset(k) + 1 + j].commentId = reps[j].id
             /\ comments[Offset(k) + 1 + j].isReply = TRUE
             /\ comments[Offset(k) + 1 + j].parentId = parentOf(item, reps[j])

\* Page of an id: ids are <<page, thread>> and <<page, thread, reply>>.
PageOfId(id) == id[1]

ParentsConsistent ==
    \A k \in 1..Len(comments) :
        /\ (comments[k].parentId = EmptyId) <=> ~comments[k].isReply
        /\ comments[k].isReply =>
              \E t \in 1..Len(comments) :
                  /\ ~comments[t].isReply
                  /\ comments[t].commentId = comments[k].parentId
                  /\ PageOfId(comments[t].commentId) =
                         PageOfId(comments[k].commentId)

ApiParentsOwn ==
    \A k \in 1..Len(processed) :
        processed[k].replies # None =>
            \A j \in 1..Len(Val(processed[k].replies)) :
                Val(processed[k].replies)[j].parentId = processed[k].id

C9_AsClaimed ==
    /\ Len(progress_calls) = Len(processed)
    /\ \A k \in 1..Len(progress_calls) : progress_calls[k].count = Offset(k + 1)

\* C9 amended: in a run with a positive cap each processed thread has
\* exactly one progress call, carrying the cumulative record count; in a
\* run without a cap (None or 0) progress is never reported.
C9_ProgressPerThread ==
    /\ ~Uncapped =>
          /\ Len(progress_calls) = Len(processed)
          /\ \A k \in 1..Len(progress_calls) :
                progress_calls[k].count = Offset(k + 1)
    /\ Uncapped => progress_calls = <<>>

C9_Witness ==
    /\ pc = "returned"
    /\ max_comments = Some(4)
    /\ Len(processed) = 3
    /\ Len(progress_calls) = 3
    /\ progress_calls[1].count = 1
    /\ progress_calls[2].count = 3
    /\ progress_calls[3].count = 4

\* ---- under comments_extractor_ui (SpecUI)

\* C3: a request failing after k >= 1 served pages ends the run without a
\* further request, the records of the k pages are returned in order, and
\* the caller does not go on as after a successful run.
C3_FailureSurfaced ==
    (uiPc = "done" /\ raised /\ Len(served) >= 1) =>
        /\ requests = Len(served) + 1
        /\ Len(Val(ret)) = RecordsOfPages(Len(served))
        /\ Val(ret) = comments
        /\ "success" \notin Range(uiMessages)

ReportedCount == ParseInt(Val(Val(statistics).commentCount))

\* C7: with a commentCount of 0, or none, get_comments is not invoked and no
\* commentThreads request is issued.
C7_NoFetchWithoutComments ==
    (statistics # None /\
     (Val(statistics).commentCount = None \/ ReportedCount = 0)) =>
        (pc = "idle" /\ requests = 0)

\* C8: the cap handed to get_comments is the reported commentCount when the
\* user's cap is 0 or exceeds it, and the user's cap otherwise; it never
\* exceeds commentCount, and a run the cap ended under a user cap of 0 holds
\* at least commentCount records.
C8_EffectiveCap ==
    uiPc \in {"fetching", "done"} =>
        /\ max_comments # None
        /\ user_max = 0 => Val(max_comments) = ReportedCount
        /\ user_max > ReportedCount => Val(max_comments) = ReportedCount
        /\ (0 < user_max /\ user_max <= ReportedCount) =>
              Val(max_comments) = user_max
        /\ Val(max_comments) <= ReportedCount
        /\ (user_max = 0 /\ stoppedByCap) => Len(Val(ret)) >= ReportedCount

C8_Witness ==
    /\ uiPc = "done"
    /\ user_max = 0
    /\ ReportedCount = 3
    /\ max_comments = Some(3)
    /\ stoppedByCap
    /\ Len(Val(ret)) = 3

(***************************************************************************)
(* Claims about extract_channel_id and channel_analytics (SpecChannel).    *)
(***************************************************************************)
\* The ChannelId shape: 24 characters, the first two being "UC".
C5_Shape(u) == Len(u) = ChannelIdLen /\ u[1] = "U" /\ u[2] = "C"

\* C5: an input of the ChannelId shape is returned unchanged with no API
\* call, and so is the returned value when it is resolved again.
C5_ChannelIdUnchanged ==
    (ch_rounds >= 1 /\ C5_Shape(ch_first)) =>
        /\ ch_result = Some(ch_first)
        /\ ch_input = ch_first
        /\ ch_calls = <<>>
        /\ ~ch_failed
        /\ ch_messages = <<>>

C5_Witness ==
    /\ ch_rounds = 2
    /\ C5_Shape(ch_first)
    /\ ch_first = T_id2
    /\ ch_result = Some(T_id2)
    /\ ch_calls = <<>>
    /\ ch_api["videos"] = ApiError

\* C6: after an API call of extract_channel_id failed, the caller holds an
\* outcome other than the one of NotFound: the value returned is not the
\* NotFound value and channel_analytics does not take the branch it takes
\* when no channel exists.
C6_FailureDistinctFromNotFound ==
    (ch_rounds = 1 /\ ch_failed) =>
        /\ ch_result # NotFound
        /\ ch_outcome # "no channel id"

(***************************************************************************)
(* Claims about extract_video_id (SpecVideo).                              *)
(***************************************************************************)
\* The four URL shapes, in the order the claim gives them.
C10_Shapes == <<L_watch, L_short, L_embed, L_v>>

\* Whether a valid token, 11 characters of the class, stands at position j.
C10_TokenAt(s, j) ==
    /\ j + VideoIdLen - 1 <= Len(s)
    /\ \A k \in j..(j + VideoIdLen - 1) : s[k] \in ClassChars

\* The positions of s where shape k stands followed by a valid token.
C10_Occurs(s, k) ==
    { j \in 1..Len(s) :
        /\ HasAt(s, j, C10_Shapes[k])
        /\ C10_TokenAt(s, j + Len(C10_Shapes[k])) }

C10_SetMin(S) == CHOOSE x \in S : \A y \in S : x <= y

\* C10: the result is None when none of the four shapes occurs with a valid
\* token; otherwise it is the token of the first shape, in the claimed
\* order, that occurs (at its leftmost occurrence); so an input put together
\* from one of the shapes and a valid token, no earlier shape occurring in
\* it, yields that token.  No API call is made.
C10_VideoId ==
    vPc = "resolved" =>
        LET hits == { k \in 1..Len(C10_Shapes) : C10_Occurs(v_url, k) # {} }
        IN /\ hits = {} => v_result = None
           /\ hits # {} =>
                 LET k == C10_SetMin(hits)
                     j == C10_SetMin(C10_Occurs(v_url, k)) + Len(C10_Shapes[k])
                 IN v_result = Some(SubSeq(v_url, j, j + VideoIdLen - 1))
           /\ \A k \in 1..Len(C10_Shapes) :
                 ( /\ v_input.lit = C10_Shapes[k]
                   /\ Len(v_input.token) = VideoIdLen
                   /\ C10_TokenAt(v_input.token, 1)
                   /\ \A e \in 1..(k - 1) : e \notin hits )
                 => v_result = Some(v_input.token)
           /\ requests = 0
           /\ ch_calls = <<>>

C10_Witness ==
    /\ vPc = "resolved"
    /\ v_input.pre = T_mobile
    /\ v_input.lit = L_short
    /\ v_input.token = T_video
    /\ v_input.suf = T_then_watch
    /\ v_result # None
    /\ v_result # Some(T_video)
    /\ HasAt(v_input.suf, Len(v_input.suf) - VideoIdLen + 1, Val(v_result))

(***************************************************************************)
(* The cap and thread boundaries (Spec).                                   *)
(***************************************************************************)
\* Number of threads the first k served pages hold.
RECURSIVE ThreadsOfPages(_)
ThreadsOfPages(k) ==
    IF k = 0 THEN 0 ELSE ThreadsOfPages(k - 1) + Len(served[k].items)

\* The records of the k-th processed thread are all in comments, in order:
\* its top-level record, then one record per reply.
ThreadInFull(k) ==
    LET item == processed[k]
        reps == IF item.replies = None THEN <<>> ELSE Val(item.replies)
    IN /\ Offset(k) + Weight(item) <= Len(comments)
       /\ comments[Offset(k) + 1].commentId = item.id
       /\ ~comments[Offset(k) + 1].isReply
       /\ \A j \in 1..Len(reps) :
             /\ comments[Offset(k) + 1 + j].commentId = reps[j].id
             /\ comments[Offset(k) + 1 + j].isReply

\* C11: with a cap set, the run holds whole threads only and goes on while
\* the count is below the cap; when the cap stops it, the thread that made
\* the count reach or cross the cap is in the result in full, no thread
\* after it was processed, and the result is at least the cap long and
\* shorter than the cap plus the size of that last thread.
C11_StopsAtThreadBoundary ==
    (pc # "idle" /\ TruthyNum(max_comments)) =>
        /\ Len(comments) = RecordsIn(processed)
        /\ comment_count = Len(comments)
        /\ \A k \in 1..Len(processed) : ThreadInFull(k)
        /\ ~stoppedByCap => comment_count < Val(max_comments)
        /\ stoppedByCap =>
              LET n    == Len(processed)
                  last == processed[n]
              IN /\ pc = "returned"
                 /\ Val(ret) = comments
                 /\ n >= 1
                 /\ Offset(n) < Val(max_comments)
                 /\ Len(Val(ret)) >= Val(max_comments)
                 /\ Len(Val(ret)) < Val(max_comments) + Weight(last)
                 /\ last = Val(response).items[idx]
                 /\ n = ThreadsOfPages(Len(served) - 1) + idx

\* The cap 2 is crossed inside a thread of three records that follows a
\* thread of one, with a thread left unprocessed on the page.
C11_Witness ==
    /\ stoppedByCap /\ pc = "returned"
    /\ max_comments = Some(2)
    /\ Len(processed) = 2
    /\ Weight(processed[2]) = 3
    /\ Len(Val(ret)) = 4
    /\ Val(ret)[4].isReply
    /\ idx < Len(Val(response).items)

(***************************************************************************)
(* The channel URL branch of extract_channel_id (SpecChannel).             *)
(***************************************************************************)
\* C12: for an input matching the channel URL pattern, the captured segment
\* is returned without an API call only when it has the ChannelId shape;
\* otherwise one lookup is issued, a channel search if the input contains
\* "@" and a lookup by username if not, and the result is the first item's
\* channel id, or NotFound when the lookup has no item.
C12_DirectOnlyForChannelIdShape ==
    (ch_rounds = 1 /\ ChannelMatch(ch_input) # None) =>
        LET segment == Val(ChannelMatch(ch_input))
            kind    == IF Contains(ch_input, "@") THEN "search" ELSE "channels"
        IN IF Len(segment) = ChannelIdLen /\ StartsWith(segment, L_UC)
           THEN ch_calls = <<>> /\ ch_result = Some(segment)
           ELSE /\ ch_calls = <<kind>>
                /\ ~ch_failed =>
                      ch_result = IF ch_api[kind].items # <<>>
                                  THEN Some(ch_api[kind].items[1])
                                  ELSE NotFound

(***************************************************************************)
(* API requests per call of extract_channel_id (SpecChannel).              *)
(***************************************************************************)
\* C13: every call of extract_channel_id adds at most one API request to
\* those issued so far; a call in which a request failed issued that one
\* request only, and a call whose search or username lookup had no item
\* issued that one lookup only, with no video lookup after it.
C13_AtMostOneRequest ==
    [][/\ Len(ch_calls') <= Len(ch_calls) + 1
       /\ ch_rounds' = 1 =>
             /\ Len(ch_calls') <= 1
             /\ ch_failed' => Len(ch_calls') = 1
             /\ \A k \in 1..Len(ch_calls') :
                   (ch_calls'[k] # "videos" /\ ch_api'[ch_calls'[k]].items = <<>>)
                       => ch_calls' = <<ch_calls'[k]>>]_vars

\* A username lookup without an item for a /c/ URL that holds a watch URL
\* further on, with a video lookup that would have found a channel: one
\* request, NotFound.
C13_Witness ==
    /\ ch_rounds = 1
    /\ ChannelMatch(ch_input) # None
    /\ HasAt(ch_input, Len(ch_input) - Len(T_then_watch) + 1, T_then_watch)
    /\ ch_api["channels"] = ApiItems(<<>>)
    /\ ch_api["videos"] = ApiItems(<<T_id3>>)
    /\ ch_calls = <<"channels">>
    /\ ~ch_failed
    /\ ch_result = NotFound

====
